---- MODULE Spec2Model ----
(***************************************************************************)
(* neomodel_bfo: the BFO 2.0 class taxonomy as node schemas, its package   *)
(* exports and the biology / social example extensions.                    *)
(*                                                                         *)
(* The program is modelled as what a Python process does with it:          *)
(*   - importing a module executes its statements one after another; a     *)
(*     statement that evaluates an unbound name raises NameError and the   *)
(*     import fails; a class statement that completes registers the type;  *)
(*   - once types are registered, a consumer creates nodes and links them  *)
(*     through the declared relationships.                                 *)
(***************************************************************************)
EXTENDS Integers, Sequences, FiniteSets, TLC

(***************************************************************************)
(* Declarations as they are written in a class body.                       *)
(***************************************************************************)

\* name = <Ctor>(...): a scalar field.
Property(n, ctor) ==
  [name |-> n, kind |-> "property", ctor |-> ctor, direction |-> "none",
   target |-> "", label |-> "", cardinality |-> "", uses |-> {ctor}]

\* The direction a relationship constructor gives the edge.
DirectionOf(ctor) ==
  IF ctor = "RelationshipTo" THEN "out"
  ELSE IF ctor = "RelationshipFrom" THEN "in" ELSE "none"

\* name = RelationshipTo/RelationshipFrom(target, label, cardinality=card).
\* card = "" is an omitted cardinality argument (the mapper's default,
\* zero-or-more); a written one is a name the class body evaluates.
Relationship(n, ctor, tgt, lbl, card) ==
  [name |-> n, kind |-> "relationship", ctor |-> ctor,
   direction |-> DirectionOf(ctor), target |-> tgt, label |-> lbl,
   cardinality |-> IF card = "" THEN "ZeroOrMore" ELSE card,
   uses |-> {ctor} \cup (IF card = "" THEN {} ELSE {card})]

\* class name(bases): body.  abstract is the body's own __abstract_node__,
\* doc the BFO identifier of the docstring ("" when there is none).
Class(n, bases, abstract, doc, members) ==
  [kind |-> "class", name |-> n, from |-> "", names |-> {n},
   bases |-> bases, abstract |-> abstract, doc |-> doc, members |-> members]

\* from <module> import names
Import(mod, names) ==
  [kind |-> "import", name |-> "", from |-> mod, names |-> names,
   bases |-> <<>>, abstract |-> FALSE, doc |-> "", members |-> {}]

\* name = <literal>
Assign(n) ==
  [kind |-> "assign", name |-> n, from |-> "", names |-> {n},
   bases |-> <<>>, abstract |-> FALSE, doc |-> "", members |-> {}]

(***************************************************************************)
(* neomodel_bfo/bfo.py                                                     *)
(***************************************************************************)

BfoImports ==
  Import("neomodel",
         {"StructuredNode", "StringProperty", "UniqueIdProperty",
          "DateTimeProperty", "FloatProperty", "JSONProperty",
          "RelationshipTo", "RelationshipFrom", "ZeroOrMore", "ZeroOrOne"})

\* Entity declared without the abstract flag.
Entity_Concrete ==
  Class("Entity", <<"StructuredNode">>, FALSE, "BFO:0000001",
        {Property("uid", "UniqueIdProperty"),
         Property("name", "StringProperty"),
         Property("description", "StringProperty"),
         Property("created_at", "DateTimeProperty"),
         Property("modified_at", "DateTimeProperty")})

Entity ==
  Class("Entity", <<"StructuredNode">>, TRUE, "BFO:0000001",
        {Property("uid", "UniqueIdProperty"),
         Property("name", "StringProperty"),
         Property("description", "StringProperty"),
         Property("created_at", "DateTimeProperty"),
         Property("modified_at", "DateTimeProperty")})

\* Continuant with has_part stored under an edge label of its own.
Continuant_HasPartOwnLabel ==
  Class("Continuant", <<"Entity">>, TRUE, "BFO:0000002",
        {Relationship("exists_at", "RelationshipTo", "TemporalRegion", "EXISTS_AT", "ZeroOrMore"),
         Relationship("part_of", "RelationshipTo", "Continuant", "PART_OF", "ZeroOrMore"),
         Relationship("has_part", "RelationshipFrom", "Continuant", "HAS_PART", "ZeroOrMore"),
         Relationship("located_in", "RelationshipTo", "Continuant", "LOCATED_IN", "ZeroOrMore"),
         Relationship("occupies_spatial_region", "RelationshipTo", "SpatialRegion",
                      "OCCUPIES_SPATIAL_REGION", "ZeroOrMore")})

Continuant ==
  Class("Continuant", <<"Entity">>, TRUE, "BFO:0000002",
        {Relationship("exists_at", "RelationshipTo", "TemporalRegion", "EXISTS_AT", "ZeroOrMore"),
         Relationship("part_of", "RelationshipTo", "Continuant", "PART_OF", "ZeroOrMore"),
         Relationship("has_part", "RelationshipFrom", "Continuant", "PART_OF", "ZeroOrMore"),
         Relationship("located_in", "RelationshipTo", "Continuant", "LOCATED_IN", "ZeroOrMore"),
         Relationship("occupies_spatial_region", "RelationshipTo", "SpatialRegion",
                      "OCCUPIES_SPATIAL_REGION", "ZeroOrMore")})

\* IndependentContinuant with participates_in declared as incoming.
IndependentContinuant_ParticipatesIncoming ==
  Class("IndependentContinuant", <<"Continuant">>, TRUE, "BFO:0000004",
        {Relationship("bearer_of", "RelationshipFrom", "SpecificallyDependentContinuant",
                      "INHERES_IN", "ZeroOrMore"),
         Relationship("participates_in", "RelationshipFrom", "Process",
                      "PARTICIPATES_IN", "ZeroOrMore")})

IndependentContinuant ==
  Class("IndependentContinuant", <<"Continuant">>, TRUE, "BFO:0000004",
        {Relationship("bearer_of", "RelationshipFrom", "SpecificallyDependentContinuant",
                      "INHERES_IN", "ZeroOrMore"),
         Relationship("participates_in", "RelationshipTo", "Process",
                      "PARTICIPATES_IN", "ZeroOrMore")})

MaterialEntity ==
  Class("MaterialEntity", <<"IndependentContinuant">>, TRUE, "BFO:0000040",
        {Property("mass_kg", "FloatProperty")})

Object ==
  Class("Object", <<"MaterialEntity">>, FALSE, "BFO:0000030", {})

FiatObjectPart ==
  Class("FiatObjectPart", <<"MaterialEntity">>, FALSE, "BFO:0000024", {})

ObjectAggregate ==
  Class("ObjectAggregate", <<"MaterialEntity">>, FALSE, "BFO:0000027", {})

ImmaterialEntity ==
  Class("ImmaterialEntity", <<"IndependentContinuant">>, TRUE, "BFO:0000141", {})

Site ==
  Class("Site", <<"ImmaterialEntity">>, FALSE, "BFO:0000029", {})

ContinuantFiatBoundary ==
  Class("ContinuantFiatBoundary", <<"ImmaterialEntity">>, TRUE, "BFO:0000140", {})

ZeroDimensionalContinuantFiatBoundary ==
  Class("ZeroDimensionalContinuantFiatBoundary", <<"ContinuantFiatBoundary">>,
        FALSE, "BFO:0000147", {})

OneDimensionalContinuantFiatBoundary ==
  Class("OneDimensionalContinuantFiatBoundary", <<"ContinuantFiatBoundary">>,
        FALSE, "BFO:0000142", {})

TwoDimensionalContinuantFiatBoundary ==
  Class("TwoDimensionalContinuantFiatBoundary", <<"ContinuantFiatBoundary">>,
        FALSE, "BFO:0000146", {})

SpatialRegion ==
  Class("SpatialRegion", <<"ImmaterialEntity">>, TRUE, "BFO:0000006",
        {Property("coordinates", "JSONProperty"),
         Property("coordinate_system", "StringProperty"),
         Relationship("spatially_contains", "RelationshipTo", "SpatialRegion",
                      "SPATIALLY_CONTAINS", "ZeroOrMore"),
         Relationship("spatially_contained_in", "RelationshipFrom", "SpatialRegion",
                      "SPATIALLY_CONTAINS", "ZeroOrMore")})

ZeroDimensionalSpatialRegion ==
  Class("ZeroDimensionalSpatialRegion", <<"SpatialRegion">>, FALSE, "BFO:0000018", {})

\* OneDimensionalSpatialRegion declared under ZeroDimensionalSpatialRegion.
OneDimensionalSpatialRegion_UnderZeroDimensional ==
  Class("OneDimensionalSpatialRegion", <<"ZeroDimensionalSpatialRegion">>, FALSE,
        "BFO:0000026", {})

OneDimensionalSpatialRegion ==
  Class("OneDimensionalSpatialRegion", <<"SpatialRegion">>, FALSE, "BFO:0000026", {})

TwoDimensionalSpatialRegion ==
  Class("TwoDimensionalSpatialRegion", <<"SpatialRegion">>, FALSE, "BFO:0000009", {})

ThreeDimensionalSpatialRegion ==
  Class("ThreeDimensionalSpatialRegion", <<"SpatialRegion">>, FALSE, "BFO:0000028", {})

GenericallyDependentContinuant ==
  Class("GenericallyDependentContinuant", <<"Continuant">>, FALSE, "BFO:0000031", {})

\* inheres_in accepting any continuant as bearer.
SpecificallyDependentContinuant_AnyBearer ==
  Class("SpecificallyDependentContinuant", <<"Continuant">>, TRUE, "BFO:0000020",
        {Relationship("inheres_in", "RelationshipTo", "Continuant",
                      "INHERES_IN", "ZeroOrMore")})

\* inheres_in declared with the imported ZeroOrOne.
SpecificallyDependentContinuant_ZeroOrOne ==
  Class("SpecificallyDependentContinuant", <<"Continuant">>, TRUE, "BFO:0000020",
        {Relationship("inheres_in", "RelationshipTo", "IndependentContinuant",
                      "INHERES_IN", "ZeroOrOne")})

SpecificallyDependentContinuant ==
  Class("SpecificallyDependentContinuant", <<"Continuant">>, TRUE, "BFO:0000020",
        {Relationship("inheres_in", "RelationshipTo", "IndependentContinuant",
                      "INHERES_IN", "ZeroOrMore")})

\* Quality without its __abstract_node__ line.
Quality_Concrete ==
  Class("Quality", <<"SpecificallyDependentContinuant">>, FALSE, "BFO:0000019",
        {Property("value", "StringProperty"),
         Property("unit", "StringProperty")})

Quality ==
  Class("Quality", <<"SpecificallyDependentContinuant">>, TRUE, "BFO:0000019",
        {Property("value", "StringProperty"),
         Property("unit", "StringProperty")})

RelationalQuality ==
  Class("RelationalQuality", <<"Quality">>, FALSE, "BFO:0000145", {})

RealizableEntity ==
  Class("RealizableEntity", <<"SpecificallyDependentContinuant">>, TRUE, "BFO:0000017",
        {Relationship("realized_by", "RelationshipFrom", "Process", "REALIZES", "ZeroOrMore")})

Role ==
  Class("Role", <<"RealizableEntity">>, FALSE, "BFO:0000023", {})

Disposition ==
  Class("Disposition", <<"RealizableEntity">>, FALSE, "BFO:0000016", {})

\* Function declared directly under RealizableEntity.
Function_UnderRealizableEntity ==
  Class("Function", <<"RealizableEntity">>, FALSE, "BFO:0000034", {})

Function ==
  Class("Function", <<"Disposition">>, FALSE, "BFO:0000034", {})

\* Occurrent declared under Continuant instead of Entity.
Occurrent_UnderContinuant ==
  Class("Occurrent", <<"Continuant">>, TRUE, "BFO:0000003",
        {Property("start_time", "DateTimeProperty"),
         Property("end_time", "DateTimeProperty"),
         Relationship("occurs_in", "RelationshipTo", "TemporalRegion", "OCCURS_IN", "ZeroOrMore"),
         Relationship("part_of", "RelationshipTo", "Occurrent", "PART_OF", "ZeroOrMore"),
         Relationship("has_part", "RelationshipFrom", "Occurrent", "PART_OF", "ZeroOrMore")})

\* Occurrent with part_of and has_part open to any entity.
Occurrent_PartOfAnyEntity ==
  Class("Occurrent", <<"Entity">>, TRUE, "BFO:0000003",
        {Property("start_time", "DateTimeProperty"),
         Property("end_time", "DateTimeProperty"),
         Relationship("occurs_in", "RelationshipTo", "TemporalRegion", "OCCURS_IN", "ZeroOrMore"),
         Relationship("part_of", "RelationshipTo", "Entity", "PART_OF", "ZeroOrMore"),
         Relationship("has_part", "RelationshipFrom", "Entity", "PART_OF", "ZeroOrMore")})

Occurrent ==
  Class("Occurrent", <<"Entity">>, TRUE, "BFO:0000003",
        {Property("start_time", "DateTimeProperty"),
         Property("end_time", "DateTimeProperty"),
         Relationship("occurs_in", "RelationshipTo", "TemporalRegion", "OCCURS_IN", "ZeroOrMore"),
         Relationship("part_of", "RelationshipTo", "Occurrent", "PART_OF", "ZeroOrMore"),
         Relationship("has_part", "RelationshipFrom", "Occurrent", "PART_OF", "ZeroOrMore")})

\* Process with preceded_by declared as an outgoing relationship.
Process_PrecededByOutgoing ==
  Class("Process", <<"Occurrent">>, TRUE, "BFO:0000015",
        {Relationship("has_participant", "RelationshipFrom", "IndependentContinuant",
                      "PARTICIPATES_IN", "ZeroOrMore"),
         Relationship("realizes", "RelationshipTo", "RealizableEntity", "REALIZES", "ZeroOrMore"),
         Relationship("has_process_boundary", "RelationshipTo", "ProcessBoundary",
                      "HAS_PROCESS_BOUNDARY", "ZeroOrMore"),
         Relationship("preceded_by", "RelationshipTo", "Process", "PRECEDES", "ZeroOrMore"),
         Relationship("precedes", "RelationshipTo", "Process", "PRECEDES", "ZeroOrMore")})

\* Process with precedes limited to one successor.
Process_PrecedesOne ==
  Class("Process", <<"Occurrent">>, TRUE, "BFO:0000015",
        {Relationship("has_participant", "RelationshipFrom", "IndependentContinuant",
                      "PARTICIPATES_IN", "ZeroOrMore"),
         Relationship("realizes", "RelationshipTo", "RealizableEntity", "REALIZES", "ZeroOrMore"),
         Relationship("has_process_boundary", "RelationshipTo", "ProcessBoundary",
                      "HAS_PROCESS_BOUNDARY", "ZeroOrMore"),
         Relationship("preceded_by", "RelationshipFrom", "Process", "PRECEDES", "ZeroOrMore"),
         Relationship("precedes", "RelationshipTo", "Process", "PRECEDES", "ZeroOrOne")})

Process ==
  Class("Process", <<"Occurrent">>, TRUE, "BFO:0000015",
        {Relationship("has_participant", "RelationshipFrom", "IndependentContinuant",
                      "PARTICIPATES_IN", "ZeroOrMore"),
         Relationship("realizes", "RelationshipTo", "RealizableEntity", "REALIZES", "ZeroOrMore"),
         Relationship("has_process_boundary", "RelationshipTo", "ProcessBoundary",
                      "HAS_PROCESS_BOUNDARY", "ZeroOrMore"),
         Relationship("preceded_by", "RelationshipFrom", "Process", "PRECEDES", "ZeroOrMore"),
         Relationship("precedes", "RelationshipTo", "Process", "PRECEDES", "ZeroOrMore")})

\* History documented with the identifier of Process.
History_IdentifierOfProcess ==
  Class("History", <<"Process">>, FALSE, "BFO:0000015", {})

History ==
  Class("History", <<"Process">>, FALSE, "BFO:0000182", {})

ProcessProfile ==
  Class("ProcessProfile", <<"Process">>, FALSE, "BFO:0000144", {})

\* ProcessBoundary declared under Process.
ProcessBoundary_UnderProcess ==
  Class("ProcessBoundary", <<"Process">>, FALSE, "BFO:0000035", {})

ProcessBoundary ==
  Class("ProcessBoundary", <<"Occurrent">>, FALSE, "BFO:0000035", {})

\* TemporalRegion with temporally_contained_in declared outgoing as well.
TemporalRegion_ContainedInOutgoing ==
  Class("TemporalRegion", <<"Occurrent">>, TRUE, "BFO:0000008",
        {Property("temporal_start", "DateTimeProperty"),
         Property("temporal_end", "DateTimeProperty"),
         Relationship("temporally_contains", "RelationshipTo", "TemporalRegion",
                      "TEMPORALLY_CONTAINS", "ZeroOrMore"),
         Relationship("temporally_contained_in", "RelationshipTo", "TemporalRegion",
                      "TEMPORALLY_CONTAINS", "ZeroOrMore")})

TemporalRegion ==
  Class("TemporalRegion", <<"Occurrent">>, TRUE, "BFO:0000008",
        {Property("temporal_start", "DateTimeProperty"),
         Property("temporal_end", "DateTimeProperty"),
         Relationship("temporally_contains", "RelationshipTo", "TemporalRegion",
                      "TEMPORALLY_CONTAINS", "ZeroOrMore"),
         Relationship("temporally_contained_in", "RelationshipFrom", "TemporalRegion",
                      "TEMPORALLY_CONTAINS", "ZeroOrMore")})

ZeroDimensionalTemporalRegion ==
  Class("ZeroDimensionalTemporalRegion", <<"TemporalRegion">>, FALSE, "BFO:0000148", {})

OneDimensionalTemporalRegion ==
  Class("OneDimensionalTemporalRegion", <<"TemporalRegion">>, FALSE, "BFO:0000038", {})

SpatioTemporalRegion ==
  Class("SpatioTemporalRegion", <<"Occurrent">>, FALSE, "BFO:0000011",
        {Property("spatial_extent", "JSONProperty"),
         Property("temporal_extent", "StringProperty")})

\* __all__ listing a name the module does not define.
BfoAll_WithEvent ==
  {"Entity", "Continuant", "Object", "Process", "Quality", "Role", "Function",
   "Disposition", "Event"}

\* __all__ = [...] of bfo.py
BfoAll ==
  {"Entity", "Continuant", "IndependentContinuant", "MaterialEntity", "Object",
   "FiatObjectPart", "ObjectAggregate", "ImmaterialEntity", "Site",
   "ContinuantFiatBoundary", "ZeroDimensionalContinuantFiatBoundary",
   "OneDimensionalContinuantFiatBoundary", "TwoDimensionalContinuantFiatBoundary",
   "SpatialRegion", "ZeroDimensionalSpatialRegion", "OneDimensionalSpatialRegion",
   "TwoDimensionalSpatialRegion", "ThreeDimensionalSpatialRegion",
   "GenericallyDependentContinuant", "SpecificallyDependentContinuant", "Quality",
   "RelationalQuality", "RealizableEntity", "Role", "Disposition", "Function",
   "Occurrent", "Process", "History", "ProcessProfile", "ProcessBoundary",
   "TemporalRegion", "ZeroDimensionalTemporalRegion", "OneDimensionalTemporalRegion",
   "SpatioTemporalRegion"}

\* The statements of bfo.py in source order.
BfoModule ==
  << BfoImports,
     Entity, Continuant, IndependentContinuant, MaterialEntity, Object,
     FiatObjectPart, ObjectAggregate, ImmaterialEntity, Site,
     ContinuantFiatBoundary, ZeroDimensionalContinuantFiatBoundary,
     OneDimensionalContinuantFiatBoundary, TwoDimensionalContinuantFiatBoundary,
     SpatialRegion, ZeroDimensionalSpatialRegion, OneDimensionalSpatialRegion,
     TwoDimensionalSpatialRegion, ThreeDimensionalSpatialRegion,
     GenericallyDependentContinuant, SpecificallyDependentContinuant, Quality,
     RelationalQuality, RealizableEntity, Role, Disposition, Function,
     Occurrent, Process, History, ProcessProfile, ProcessBoundary,
     TemporalRegion, ZeroDimensionalTemporalRegion, OneDimensionalTemporalRegion,
     SpatioTemporalRegion,
     Assign("__all__") >>

(***************************************************************************)
(* neomodel_bfo/__init__.py                                                *)
(***************************************************************************)

\* The package import with Process left out.
PkgImports_WithoutProcess ==
  Import("neomodel_bfo.bfo",
         {"Entity", "Continuant", "IndependentContinuant", "MaterialEntity", "Object",
          "FiatObjectPart", "ObjectAggregate", "ImmaterialEntity", "Site",
          "ContinuantFiatBoundary", "ZeroDimensionalContinuantFiatBoundary",
          "OneDimensionalContinuantFiatBoundary", "TwoDimensionalContinuantFiatBoundary",
          "SpatialRegion", "ZeroDimensionalSpatialRegion", "OneDimensionalSpatialRegion",
          "TwoDimensionalSpatialRegion", "ThreeDimensionalSpatialRegion",
          "GenericallyDependentContinuant", "SpecificallyDependentContinuant", "Quality",
          "RelationalQuality", "RealizableEntity", "Role", "Disposition", "Function",
          "Occurrent", "History", "ProcessProfile", "ProcessBoundary",
          "TemporalRegion", "ZeroDimensionalTemporalRegion", "OneDimensionalTemporalRegion",
          "SpatioTemporalRegion"})

\* from neomodel_bfo.bfo import ( ... )
PkgImports ==
  Import("neomodel_bfo.bfo",
         {"Entity", "Continuant", "IndependentContinuant", "MaterialEntity", "Object",
          "FiatObjectPart", "ObjectAggregate", "ImmaterialEntity", "Site",
          "ContinuantFiatBoundary", "ZeroDimensionalContinuantFiatBoundary",
          "OneDimensionalContinuantFiatBoundary", "TwoDimensionalContinuantFiatBoundary",
          "SpatialRegion", "ZeroDimensionalSpatialRegion", "OneDimensionalSpatialRegion",
          "TwoDimensionalSpatialRegion", "ThreeDimensionalSpatialRegion",
          "GenericallyDependentContinuant", "SpecificallyDependentContinuant", "Quality",
          "RelationalQuality", "RealizableEntity", "Role", "Disposition", "Function",
          "Occurrent", "Process", "History", "ProcessProfile", "ProcessBoundary",
          "TemporalRegion", "ZeroDimensionalTemporalRegion", "OneDimensionalTemporalRegion",
          "SpatioTemporalRegion"})

\* __all__ = [...] of the package
PkgAll ==
  {"Entity", "Continuant", "IndependentContinuant", "MaterialEntity", "Object",
   "FiatObjectPart", "ObjectAggregate", "ImmaterialEntity", "Site",
   "ContinuantFiatBoundary", "ZeroDimensionalContinuantFiatBoundary",
   "OneDimensionalContinuantFiatBoundary", "TwoDimensionalContinuantFiatBoundary",
   "SpatialRegion", "ZeroDimensionalSpatialRegion", "OneDimensionalSpatialRegion",
   "TwoDimensionalSpatialRegion", "ThreeDimensionalSpatialRegion",
   "GenericallyDependentContinuant", "SpecificallyDependentContinuant", "Quality",
   "RelationalQuality", "RealizableEntity", "Role", "Disposition", "Function",
   "Occurrent", "Process", "History", "ProcessProfile", "ProcessBoundary",
   "TemporalRegion", "ZeroDimensionalTemporalRegion", "OneDimensionalTemporalRegion",
   "SpatioTemporalRegion"}

\* The statements of neomodel_bfo/__init__.py in source order.
PkgModule ==
  << Assign("__author__"), Assign("__email__"), Assign("__version__"),
     PkgImports, Assign("__all__") >>

(***************************************************************************)
(* examples/biology_example.py                                             *)
(***************************************************************************)

BiologyImportsNeomodel ==
  Import("neomodel",
         {"StringProperty", "IntegerProperty", "FloatProperty", "RelationshipTo"})

BiologyImportsBfo ==
  Import("neomodel_bfo",
         {"Object", "FiatObjectPart", "Quality", "Function", "Process", "Role"})

Organism ==
  Class("Organism", <<"Object">>, FALSE, "",
        {Property("species", "StringProperty"),
         Property("age_years", "IntegerProperty"),
         Relationship("offspring_of", "RelationshipTo", "Organism", "OFFSPRING_OF", ""),
         Relationship("has_offspring", "RelationshipFrom", "Organism", "OFFSPRING_OF", "")})

AnatomicalStructure ==
  Class("AnatomicalStructure", <<"FiatObjectPart">>, FALSE, "",
        {Property("anatomical_type", "StringProperty")})

Cell ==
  Class("Cell", <<"Object">>, FALSE, "", {Property("cell_type", "StringProperty")})

BodyTemperature ==
  Class("BodyTemperature", <<"Quality">>, FALSE, "", {})

BodyMass ==
  Class("BodyMass", <<"Quality">>, FALSE, "", {})

BiologicalFunction ==
  Class("BiologicalFunction", <<"Function">>, FALSE, "",
        {Property("function_category", "StringProperty")})

HeartPumpingFunction ==
  Class("HeartPumpingFunction", <<"BiologicalFunction">>, FALSE, "", {})

BiologicalProcess ==
  Class("BiologicalProcess", <<"Process">>, FALSE, "",
        {Property("process_type", "StringProperty")})

CellDivision ==
  Class("CellDivision", <<"BiologicalProcess">>, FALSE, "",
        {Property("division_type", "StringProperty")})

Growth ==
  Class("Growth", <<"BiologicalProcess">>, FALSE, "",
        {Property("growth_rate_mm_per_day", "FloatProperty")})

Predator ==
  Class("Predator", <<"Role">>, FALSE, "", {})

Prey ==
  Class("Prey", <<"Role">>, FALSE, "", {})

\* The statements of biology_example.py in source order (the body of
\* example_usage is not evaluated by the import, only its name is bound).
BiologyModule ==
  << BiologyImportsNeomodel, BiologyImportsBfo,
     Organism, AnatomicalStructure, Cell, BodyTemperature, BodyMass,
     BiologicalFunction, HeartPumpingFunction, BiologicalProcess, CellDivision,
     Growth, Predator, Prey,
     Assign("example_usage") >>

(***************************************************************************)
(* examples/social_ontology_example.py                                     *)
(***************************************************************************)

\* The social example importing from neomodel what the biology example does.
SocialImportsNeomodel_AsBiology ==
  Import("neomodel",
         {"StringProperty", "IntegerProperty", "DateProperty", "RelationshipTo"})

SocialImportsNeomodel ==
  Import("neomodel",
         {"StringProperty", "IntegerProperty", "DateProperty", "RelationshipTo",
          "RelationshipFrom", "ZeroOrMore"})

SocialImportsBfo ==
  Import("neomodel_bfo",
         {"Object", "Role", "Process", "Quality", "GenericallyDependentContinuant"})

\* Person redeclaring the inherited part_of with another target and cardinality.
Person_RedeclaresPartOf ==
  Class("Person", <<"Object">>, FALSE, "",
        {Property("date_of_birth", "DateProperty"),
         Property("nationality", "StringProperty"),
         Relationship("part_of", "RelationshipTo", "Organization", "PART_OF", "ZeroOrOne"),
         Relationship("employed_by", "RelationshipTo", "Organization", "EMPLOYED_BY", ""),
         Relationship("member_of", "RelationshipTo", "Organization", "MEMBER_OF", "")})

Person ==
  Class("Person", <<"Object">>, FALSE, "",
        {Property("date_of_birth", "DateProperty"),
         Property("nationality", "StringProperty"),
         Relationship("employed_by", "RelationshipTo", "Organization", "EMPLOYED_BY", ""),
         Relationship("member_of", "RelationshipTo", "Organization", "MEMBER_OF", "")})

Organization ==
  Class("Organization", <<"Object">>, FALSE, "",
        {Property("founded_date", "DateProperty"),
         Property("organization_type", "StringProperty"),
         Relationship("part_of_org", "RelationshipTo", "Organization", "PART_OF_ORG", ""),
         Relationship("has_member", "RelationshipFrom", "Person", "MEMBER_OF", ""),
         Relationship("employs", "RelationshipFrom", "Person", "EMPLOYED_BY", "")})

SocialRole ==
  Class("SocialRole", <<"Role">>, FALSE, "",
        {Property("role_type", "StringProperty"),
         Property("active_since", "DateProperty"),
         Property("active_until", "DateProperty")})

EmployeeRole ==
  Class("EmployeeRole", <<"SocialRole">>, FALSE, "",
        {Property("job_title", "StringProperty"),
         Property("department", "StringProperty")})

StudentRole ==
  Class("StudentRole", <<"SocialRole">>, FALSE, "",
        {Property("student_id", "StringProperty"),
         Property("program", "StringProperty"),
         Property("enrollment_year", "IntegerProperty")})

ParentRole ==
  Class("ParentRole", <<"SocialRole">>, FALSE, "", {})

TeacherRole ==
  Class("TeacherRole", <<"SocialRole">>, FALSE, "",
        {Property("subject_area", "StringProperty")})

SocialProcess ==
  Class("SocialProcess", <<"Process">>, FALSE, "",
        {Property("process_category", "StringProperty")})

Teaching ==
  Class("Teaching", <<"SocialProcess">>, FALSE, "",
        {Property("course_name", "StringProperty")})

Employment ==
  Class("Employment", <<"SocialProcess">>, FALSE, "", {})

Meeting ==
  Class("Meeting", <<"SocialProcess">>, FALSE, "",
        {Property("meeting_type", "StringProperty"),
         Property("location", "StringProperty")})

InformationContentEntity ==
  Class("InformationContentEntity", <<"GenericallyDependentContinuant">>, FALSE, "",
        {Property("content_type", "StringProperty")})

Document ==
  Class("Document", <<"InformationContentEntity">>, FALSE, "",
        {Property("document_type", "StringProperty"),
         Relationship("author", "RelationshipTo", "Person", "AUTHORED_BY", "")})

Reputation ==
  Class("Reputation", <<"Quality">>, FALSE, "",
        {Property("reputation_score", "StringProperty")})

\* The statements of social_ontology_example.py in source order.
SocialModule ==
  << SocialImportsNeomodel, SocialImportsBfo,
     Person, Organization, SocialRole, EmployeeRole, StudentRole, ParentRole,
     TeacherRole, SocialProcess, Teaching, Employment, Meeting,
     InformationContentEntity, Document, Reputation,
     Assign("example_usage") >>

(***************************************************************************)
(* Class statements of a consumer that extends the core by subclassing,    *)
(* as the two examples do.                                                 *)
(***************************************************************************)

\* part_of declared again with another target and edge label.
Patient ==
  Class("Patient", <<"Object">>, FALSE, "",
        {Relationship("part_of", "RelationshipTo", "Site", "LOCATED_AT", "ZeroOrMore")})

\* The inherited property name declared again with another constructor.
Specimen ==
  Class("Specimen", <<"Object">>, FALSE, "",
        {Property("name", "IntegerProperty")})

\* part_of declared again as inherited but for a narrower cardinality.
Organ ==
  Class("Organ", <<"Object">>, FALSE, "",
        {Relationship("part_of", "RelationshipTo", "Continuant", "PART_OF", "ZeroOrOne")})

\* A type that adds a name of its own.
Instrument ==
  Class("Instrument", <<"Object">>, FALSE, "",
        {Property("serial_number", "StringProperty")})

ExtensionStatements == {Patient, Specimen, Organ, Instrument}

(***************************************************************************)
(* The Python process: modules, namespaces and the type registry.          *)
(***************************************************************************)

Modules ==
  {"neomodel_bfo.bfo", "neomodel_bfo",
   "examples.biology_example", "examples.social_ontology_example"}

\* Modules a consumer names in an import of its own; neomodel_bfo.bfo is
\* only ever executed from the package's __init__.
TopLevelModules ==
  {"neomodel_bfo", "examples.biology_example", "examples.social_ontology_example"}

\* The statements an import of module m executes.
Code(m) ==
  CASE m = "neomodel_bfo.bfo" -> BfoModule
    [] m = "neomodel_bfo" -> PkgModule
    [] m = "examples.biology_example" -> BiologyModule
    [] m = "examples.social_ontology_example" -> SocialModule

\* The names the sources import from the external mapper package.
NeomodelNames ==
  {"StructuredNode", "StringProperty", "UniqueIdProperty", "DateTimeProperty",
   "FloatProperty", "JSONProperty", "IntegerProperty", "DateProperty",
   "RelationshipTo", "RelationshipFrom", "ZeroOrMore", "ZeroOrOne", "config"}

\* The names a class statement evaluates: its bases and, in the body, the
\* constructors and cardinality names of its declarations.
Uses(st) ==
  {st.bases[i] : i \in DOMAIN st.bases} \cup UNION {d.uses : d \in st.members}

StatementsOf(m) == {Code(m)[i] : i \in 1..Len(Code(m))}

\* Every class statement of the four modules, and the type names they bind.
ClassStatements ==
  {st \in UNION {StatementsOf(m) : m \in Modules} : st.kind = "class"}

TypeNames == {st.name : st \in ClassStatements}

\* The types bfo.py declares.
CoreTypes == {st.name : st \in {s \in StatementsOf("neomodel_bfo.bfo") : s.kind = "class"}}

(***************************************************************************)
(* Class objects: what a completed class statement creates, the registry   *)
(* of the types created so far, and the lookups Python performs on them.   *)
(***************************************************************************)

\* The class object a class statement of module m creates.
ClassObject(st, m) ==
  [name |-> st.name, bases |-> st.bases, abstract |-> st.abstract,
   doc |-> st.doc, members |-> st.members, module |-> m]

\* The class object of each declared type.  A type name is bound by one
\* class statement, and nothing alters a class object once it is created.
RECURSIVE ClassObjectsOf(_, _)
ClassObjectsOf(m, i) ==
  IF i > Len(Code(m)) THEN <<>>
  ELSE IF Code(m)[i].kind = "class"
       THEN (Code(m)[i].name :> ClassObject(Code(m)[i], m)) @@ ClassObjectsOf(m, i + 1)
       ELSE ClassObjectsOf(m, i + 1)

\* The class objects the extension statements create, in the consumer's
\* own module.
ExtensionObjects ==
  ("Patient" :> ClassObject(Patient, "__main__"))
    @@ ("Specimen" :> ClassObject(Specimen, "__main__"))
    @@ ("Organ" :> ClassObject(Organ, "__main__"))
    @@ ("Instrument" :> ClassObject(Instrument, "__main__"))

ClassObjects ==
  ClassObjectsOf("neomodel_bfo.bfo", 1) @@ ClassObjectsOf("neomodel_bfo", 1)
    @@ ClassObjectsOf("examples.biology_example", 1)
    @@ ClassObjectsOf("examples.social_ontology_example", 1)
    @@ ExtensionObjects

\* The module whose source declares type T.
ModuleOf(T) == ClassObjects[T].module

\* The BFO identifier in T.__doc__ ("" when the docstring has none).
Doc(T) == ClassObjects[T].doc

\* The registered bases of T (the mapper's own StructuredNode is outside).
Parents(reg, T) ==
  {ClassObjects[T].bases[i] : i \in DOMAIN ClassObjects[T].bases} \cap DOMAIN reg

\* The __mro__ Python computes when the class statement st completes: the
\* new type followed by the __mro__ of its base.  Every class statement of
\* the sources names one base; a base outside the registry (the mapper's
\* StructuredNode) ends the chain.
NewMro(reg, st) ==
  <<st.name>> \o (IF Len(st.bases) > 0 /\ st.bases[1] \in DOMAIN reg
                  THEN reg[st.bases[1]] ELSE <<>>)

\* T.__mro__, as stored when T was created.
Mro(reg, T) == reg[T]

SeqToSet(q) == {q[i] : i \in DOMAIN q}

\* issubclass(T, X)
IsSubclass(reg, T, X) == X \in SeqToSet(Mro(reg, T))

\* The proper ancestors of T.
Ancestors(reg, T) == SeqToSet(Mro(reg, T)) \ {T}

\* The declaration names in T's own class body.
OwnNames(reg, T) == {d.name : d \in ClassObjects[T].members}

\* dir(T): the declaration names visible on T, those of every class of its MRO.
Dir(reg, T) ==
  LET mro == Mro(reg, T)
  IN UNION {OwnNames(reg, mro[i]) : i \in DOMAIN mro}

\* Attribute lookup along an MRO from position i: the first class that
\* declares n decides.
RECURSIVE LookupFrom(_, _, _, _)
LookupFrom(reg, mro, i, n) ==
  IF n \in OwnNames(reg, mro[i])
  THEN CHOOSE d \in ClassObjects[mro[i]].members : d.name = n
  ELSE LookupFrom(reg, mro, i + 1, n)

\* getattr(T, n) for a name n of dir(T).
GetAttr(reg, T, n) == LookupFrom(reg, Mro(reg, T), 1, n)

\* The effective schema of T: every visible name with its declaration.
EffectiveSchema(reg, T) == {GetAttr(reg, T, n) : n \in Dir(reg, T)}

\* r names a relationship visible on T.
HasRelationship(reg, T, r) ==
  /\ r \in Dir(reg, T)
  /\ GetAttr(reg, T, r).kind = "relationship"

\* The relationship names visible on T.
RelationshipNames(reg, T) == {n \in Dir(reg, T) : HasRelationship(reg, T, n)}

\* Every relationship name some class statement declares.
DeclaredRelationshipNames ==
  UNION {{d.name : d \in {e \in st.members : e.kind = "relationship"}} :
           st \in ClassStatements}

(***************************************************************************)
(* State.                                                                  *)
(***************************************************************************)

VARIABLES
  stack,      \* the modules whose import is executing, innermost last
  modStatus,  \* per module: "unloaded", "loading", "loaded" or "failed"
  modPc,      \* per module: the index of the next statement to execute
  ns,         \* per module: the names bound in its namespace
  registry,   \* type name -> its __mro__, for every class statement completed so far
  nodes,      \* the node instances: nodes[i] is the type of instance i
  edges,      \* the relationship edges <<source, label, target>>
  result      \* the outcome of the last consumer operation

vars == <<stack, modStatus, modPc, ns, registry, nodes, edges, result>>

schemaVars == <<stack, modStatus, modPc, ns, registry>>
graphVars == <<nodes, edges>>

\* Most node instances a run of Spec creates.
MaxInstances == 1

\* Most node instances and edges a run of SpecGraph creates.
MaxNodes == 3
MaxEdges == 2

\* Most node instances a run of SpecPairs creates.
MaxPairNodes == 2

\* Most node instances a run of SpecOps holds at a time.
MaxOpsNodes == 2

\* Most node instances and edges a run of SpecOrder creates.
MaxOrderNodes == 3
MaxOrderEdges == 3

\* result: the operation, the type an instantiate names, and the outcome
\* ("ok" or the error raised).
NoResult == [op |-> "none", arg |-> "", status |-> ""]

Init ==
  /\ stack = <<>>
  /\ modStatus = [m \in Modules |-> "unloaded"]
  /\ modPc = [m \in Modules |-> 1]
  /\ ns = [m \in Modules |-> {}]
  /\ registry = <<>>
  /\ nodes = <<>>
  /\ edges = {}
  /\ result = NoResult

(***************************************************************************)
(* Importing a module.                                                     *)
(***************************************************************************)

Top == stack[Len(stack)]

NextStmt(m) == Code(m)[modPc[m]]

\* The innermost executing module is at an import of module m.
AtImportOf(m) ==
  /\ stack # <<>>
  /\ NextStmt(Top).kind = "import"
  /\ NextStmt(Top).from = m

\* import m: by the consumer (no import executing) or by the import statement
\* the innermost module is at.  A module that is not in sys.modules, never
\* imported or removed when its import failed, is executed from its first
\* statement in a fresh namespace; importing a loaded module executes nothing.
BeginImport(m) ==
  /\ modStatus[m] \in {"unloaded", "failed"}
  /\ \/ stack = <<>> /\ m \in TopLevelModules
     \/ AtImportOf(m)
  /\ stack' = Append(stack, m)
  /\ modStatus' = [modStatus EXCEPT ![m] = "loading"]
  /\ modPc' = [modPc EXCEPT ![m] = 1]
  /\ ns' = [ns EXCEPT ![m] = {}]
  /\ UNCHANGED <<registry, nodes, edges, result>>

\* The statement of module m completed and bound names: move to the next
\* statement, or finish the import after the last one.
Advance(m, names) ==
  /\ ns' = [ns EXCEPT ![m] = @ \cup names]
  /\ IF modPc[m] = Len(Code(m))
     THEN /\ modStatus' = [modStatus EXCEPT ![m] = "loaded"]
          /\ stack' = SubSeq(stack, 1, Len(stack) - 1)
          /\ modPc' = modPc
     ELSE /\ modPc' = [modPc EXCEPT ![m] = @ + 1]
          /\ UNCHANGED <<modStatus, stack>>

\* The statement of module m raised.  No module of the sources catches an
\* exception, so it unwinds every import that is executing: each module on
\* the stack fails where it stands and is removed from sys.modules.
Raise(m) ==
  /\ modStatus' = [x \in Modules |->
                     IF \E i \in DOMAIN stack : stack[i] = x THEN "failed"
                     ELSE modStatus[x]]
  /\ stack' = <<>>
  /\ UNCHANGED <<modPc, ns>>

\* The name a loaded module mod is bound to in the namespace of module m:
\* the import system sets a submodule as an attribute of its package, so
\* neomodel_bfo.bfo is bfo in neomodel_bfo.
SubmoduleBinding(m, mod) ==
  IF Len(mod) > Len(m) + 1 /\ SubSeq(mod, 1, Len(m) + 1) = m \o "."
  THEN {SubSeq(mod, Len(m) + 2, Len(mod))}
  ELSE {}

\* from <module> import names, once the source module is loaded: every name
\* must be an attribute of the source module, or the statement raises
\* ImportError.  The names are bound in the importing module, and so is a
\* submodule the statement imported.
ExecImport ==
  /\ stack # <<>>
  /\ LET m == Top
         st == NextStmt(m)
     IN /\ st.kind = "import"
        /\ st.from \in Modules => modStatus[st.from] = "loaded"
        /\ LET available == IF st.from = "neomodel" THEN NeomodelNames ELSE ns[st.from]
           IN IF st.names \subseteq available
              THEN Advance(m, st.names \cup SubmoduleBinding(m, st.from))
              ELSE Raise(m)
  /\ UNCHANGED <<registry, nodes, edges, result>>

\* class T(bases): body.  The bases and the body's constructor and
\* cardinality names are evaluated in the module's namespace; an unbound one
\* raises NameError before the class exists.  Otherwise the class object is
\* created, registered and bound to its name.
ExecClass ==
  /\ stack # <<>>
  /\ LET m == Top
         st == NextStmt(m)
     IN /\ st.kind = "class"
        /\ IF Uses(st) \subseteq ns[m]
           THEN /\ registry' = (st.name :> NewMro(registry, st)) @@ registry
                /\ Advance(m, {st.name})
           ELSE /\ Raise(m)
                /\ UNCHANGED registry
  /\ UNCHANGED <<nodes, edges, result>>

\* The definition of example_usage followed by a call of it while the
\* module is being imported.
ExecAssign_CallsExampleUsage ==
  /\ stack # <<>>
  /\ LET m == Top
         st == NextStmt(m)
     IN /\ st.kind = "assign"
        /\ Advance(m, {st.name})
        /\ nodes' = IF st.name = "example_usage" THEN Append(nodes, "Person") ELSE nodes
  /\ UNCHANGED <<registry, edges, result>>

\* name = literal, or def name(...): binds the name.
ExecAssign ==
  /\ stack # <<>>
  /\ LET m == Top
         st == NextStmt(m)
     IN /\ st.kind = "assign"
        /\ Advance(m, {st.name})
  /\ UNCHANGED <<registry, nodes, edges, result>>

\* class T(P): body, executed by the consumer once its imports are done.
\* As for ExecClass, the completed statement creates and registers the
\* class; a name of the body that a base already exposes shadows the
\* inherited declaration on the new class.
DefineType(st) ==
  /\ stack = <<>>
  /\ \A m \in TopLevelModules : modStatus[m] \in {"loaded", "failed"}
  /\ st.name \notin DOMAIN registry
  /\ \A i \in DOMAIN st.bases :
       st.bases[i] \in DOMAIN registry /\ st.bases[i] \in ns["neomodel_bfo"]
  /\ registry' = (st.name :> NewMro(registry, st)) @@ registry
  /\ result' = [op |-> "define", arg |-> st.name, status |-> "ok"]
  /\ UNCHANGED <<stack, modStatus, modPc, ns, nodes, edges>>

(***************************************************************************)
(* The consumer's instance operations (section 4.1, 6 and 7 of the         *)
(* specification): create a node, link two nodes, traverse.                *)
(***************************************************************************)

\* The module a consumer imports type T from: the package re-exports the
\* core types, an example type comes from its own module.
ImportedFrom(T) == IF T \in CoreTypes THEN "neomodel_bfo" ELSE ModuleOf(T)

\* The consumer has the class T in hand.
Bound(T) ==
  /\ modStatus[ImportedFrom(T)] = "loaded"
  /\ T \in ns[ImportedFrom(T)]
  /\ T \in DOMAIN registry

\* The abstract flag of T: the one T's own class body declares.
IsAbstract(reg, T) == ClassObjects[T].abstract

\* The outcome of T(...): a failed import leaves no class to call, an
\* abstract type rejects direct instantiation.
InstantiateStatus(T) ==
  IF ~Bound(T) THEN "NameError"
  ELSE IF IsAbstract(registry, T) THEN "AbstractInstantiationError"
  ELSE "ok"

\* T(...).save(): create a node of type T.  cap bounds the number of nodes.
Instantiate(T, cap) ==
  /\ stack = <<>>
  /\ modStatus[ImportedFrom(T)] \in {"loaded", "failed"}
  /\ LET status == InstantiateStatus(T)
     IN /\ status = "ok" => Len(nodes) < cap
        /\ nodes' = IF status = "ok" THEN Append(nodes, T) ELSE nodes
        /\ result' = [op |-> "instantiate", arg |-> T, status |-> status]
  /\ UNCHANGED <<stack, modStatus, modPc, ns, registry, edges>>

\* The edge a link from instance a through declaration d to instance b is
\* stored as: an outgoing relationship leaves a, an incoming one enters a.
EdgeOf(a, d, b) ==
  IF d.direction = "out" THEN <<a, d.label, b>> ELSE <<b, d.label, a>>

\* The instances related to a through declaration d, in a set of edges e.
Related(e, a, d) ==
  IF d.direction = "out"
  THEN {x[3] : x \in {y \in e : y[1] = a /\ y[2] = d.label}}
  ELSE {x[1] : x \in {y \in e : y[3] = a /\ y[2] = d.label}}

\* A further edge through d from a would exceed d's cardinality.
CardinalityFull(e, a, d, b) ==
  /\ d.cardinality \in {"ZeroOrOne", "One"}
  /\ Related(e, a, d) \ {b} # {}

\* Validate relationship target: the declared target type or a descendant.
ConnectStatus(reg, nd, e, a, r, b) ==
  LET d == GetAttr(reg, nd[a], r)
  IN IF d.target \notin DOMAIN reg THEN "RelationshipTypeError"
     ELSE IF ~IsSubclass(reg, nd[b], d.target) THEN "RelationshipTypeError"
     ELSE IF CardinalityFull(e, a, d, b) THEN "CardinalityError"
     ELSE "ok"

\* a.r.connect(b): link instance a to instance b through relationship r of
\* a's type.  Linking twice leaves one edge.  cap bounds the number of edges.
ConnectWithin(a, r, b, cap) ==
  /\ stack = <<>>
  /\ a \in DOMAIN nodes /\ b \in DOMAIN nodes
  /\ HasRelationship(registry, nodes[a], r)
  /\ LET d == GetAttr(registry, nodes[a], r)
         status == ConnectStatus(registry, nodes, edges, a, r, b)
     IN /\ status = "ok" => Cardinality(edges \cup {EdgeOf(a, d, b)}) <= cap
        /\ edges' = IF status = "ok" THEN edges \cup {EdgeOf(a, d, b)} ELSE edges
        /\ result' = [op |-> "connect", arg |-> "", status |-> status]
  /\ UNCHANGED <<stack, modStatus, modPc, ns, registry, nodes>>

Connect(a, r, b) == ConnectWithin(a, r, b, MaxEdges)

\* a.r.all(): the instances reached from a through relationship r, each of
\* the declared target type or a descendant.
Traverse(reg, nd, e, a, r) ==
  LET d == GetAttr(reg, nd[a], r)
  IN {b \in Related(e, a, d) : IsSubclass(reg, nd[b], d.target)}

\* a.delete(): remove instance a and every edge at it; the instances after
\* a move down by one.
Delete(a) ==
  /\ stack = <<>>
  /\ a \in DOMAIN nodes
  /\ LET Moved(i) == IF i > a THEN i - 1 ELSE i
     IN /\ nodes' = [i \in 1..(Len(nodes) - 1) |-> nodes[IF i < a THEN i ELSE i + 1]]
        /\ edges' = {<<Moved(e[1]), e[2], Moved(e[3])>> :
                       e \in {x \in edges : x[1] # a /\ x[3] # a}}
  /\ result' = [op |-> "delete", arg |-> "", status |-> "ok"]
  /\ UNCHANGED <<stack, modStatus, modPc, ns, registry>>

\* a.r.all() as an operation of the consumer: it reads the edges and
\* changes nothing but the outcome reported.
Query(a, r) ==
  /\ stack = <<>>
  /\ a \in DOMAIN nodes
  /\ HasRelationship(registry, nodes[a], r)
  /\ Traverse(registry, nodes, edges, a, r) \subseteq DOMAIN nodes
  /\ result' = [op |-> "traverse", arg |-> "", status |-> "ok"]
  /\ UNCHANGED <<stack, modStatus, modPc, ns, registry, nodes, edges>>

(***************************************************************************)
(* Specifications.                                                         *)
(***************************************************************************)

\* Every import a process performs has returned or raised.
ImportsDone ==
  /\ stack = <<>>
  /\ \A m \in TopLevelModules : modStatus[m] \in {"loaded", "failed"}

\* The imports of a process, statement by statement.
ImportStep ==
  \/ \E m \in Modules : BeginImport(m)
  \/ ExecImport
  \/ ExecClass
  \/ ExecAssign

\* Once its imports are done the consumer links any two of its nodes
\* through any relationship visible on the first.
Link ==
  /\ ImportsDone
  /\ \E a \in DOMAIN nodes :
       \E r \in RelationshipNames(registry, nodes[a]) :
         \E b \in DOMAIN nodes : Connect(a, r, b)

\* A consumer that imports the modules and then creates a node of any
\* declared type.
CreateNode ==
  /\ ImportsDone
  /\ \E T \in TypeNames : Instantiate(T, MaxInstances)

Next == ImportStep \/ CreateNode

Spec == Init /\ [][Next]_vars

\* A consumer that imports the modules and then builds a graph of up to
\* MaxNodes nodes: bearers, qualities and realizable entities.
GraphTypes == {"Object", "RelationalQuality", "Function"}

CreateGraphNode ==
  /\ ImportsDone
  /\ \E T \in GraphTypes : Instantiate(T, MaxNodes)

NextGraph == ImportStep \/ CreateGraphNode \/ Link

SpecGraph == Init /\ [][NextGraph]_vars

\* A consumer that imports the modules and then links pairs of nodes, of
\* one concrete type for every relationship target of the core.
PairTypes ==
  {"Object", "Site", "RelationalQuality", "Role", "Function", "History",
   "ProcessBoundary", "ZeroDimensionalSpatialRegion",
   "ZeroDimensionalTemporalRegion"}

CreatePairNode ==
  /\ ImportsDone
  /\ \E T \in PairTypes : Instantiate(T, MaxPairNodes)

NextPairs == ImportStep \/ CreatePairNode \/ Link

SpecPairs == Init /\ [][NextPairs]_vars

\* A consumer that imports the modules and then creates, links, queries and
\* deletes up to MaxOpsNodes nodes, asking for abstract types as well.
OpsTypes == {"Object", "Quality", "RelationalQuality", "History"}

CreateOpsNode ==
  /\ ImportsDone
  /\ \E T \in OpsTypes : Instantiate(T, MaxOpsNodes)

DeleteNode ==
  /\ ImportsDone
  /\ \E a \in DOMAIN nodes : Delete(a)

QueryNode ==
  /\ ImportsDone
  /\ \E a \in DOMAIN nodes : \E r \in RelationshipNames(registry, nodes[a]) : Query(a, r)

NextOps == ImportStep \/ CreateOpsNode \/ Link \/ DeleteNode \/ QueryNode

SpecOps == Init /\ [][NextOps]_vars

\* A consumer that imports the modules and then orders processes and
\* nests objects, through precedes and part_of.
OrderTypes == {"History", "Object"}

CreateOrderNode ==
  /\ ImportsDone
  /\ \E T \in OrderTypes : Instantiate(T, MaxOrderNodes)

LinkOrder ==
  /\ ImportsDone
  /\ \E a \in DOMAIN nodes :
       \E r \in {"precedes", "part_of"} \cap RelationshipNames(registry, nodes[a]) :
         \E b \in DOMAIN nodes : ConnectWithin(a, r, b, MaxOrderEdges)

NextOrder == ImportStep \/ CreateOrderNode \/ LinkOrder

SpecOrder == Init /\ [][NextOrder]_vars

\* A consumer that imports the modules and then extends the core with
\* types of its own.
DefineStep == \E st \in ExtensionStatements : DefineType(st)

NextDefine == ImportStep \/ DefineStep

SpecDefine == Init /\ [][NextDefine]_vars

(***************************************************************************)
(* Properties of the type hierarchy.                                       *)
(***************************************************************************)

\* q has no element twice.
NoRepeat(q) == \A i, j \in DOMAIN q : q[i] = q[j] => i = j

\* The core types registered so far.
RegisteredCore == CoreTypes \cap DOMAIN registry

\* C1: the core hierarchy is a single-rooted tree.  Every registered core
\* type other than Entity has exactly one parent among the core types, and
\* the parent links from any registered core type lead to Entity without
\* visiting a type twice; once bfo.py is imported all 35 types are there,
\* with Object, Function and History on the chains the specification names.
C1_SingleRootedTree ==
  /\ \A T \in RegisteredCore :
       LET chain == Mro(registry, T)
       IN /\ T # "Entity" => Cardinality(Parents(registry, T) \cap CoreTypes) = 1
          /\ Parents(registry, "Entity") = {}
          /\ chain[1] = T
          /\ chain[Len(chain)] = "Entity"
          /\ NoRepeat(chain)
          /\ \A i \in 1..(Len(chain) - 1) : Parents(registry, chain[i]) = {chain[i + 1]}
  /\ modStatus["neomodel_bfo.bfo"] = "loaded" =>
       /\ Cardinality(RegisteredCore) = 35
       /\ Mro(registry, "Object") =
            <<"Object", "MaterialEntity", "IndependentContinuant", "Continuant", "Entity">>
       /\ Mro(registry, "Function") =
            <<"Function", "Disposition", "RealizableEntity",
              "SpecificallyDependentContinuant", "Continuant", "Entity">>
       /\ Mro(registry, "History") = <<"History", "Process", "Occurrent", "Entity">>

\* bfo.py has been imported and its deepest chain is registered.
C1_Witness ==
  /\ modStatus["neomodel_bfo.bfo"] = "loaded"
  /\ Cardinality(RegisteredCore) = 35
  /\ Len(Mro(registry, "Function")) = 6

\* C2: inheritance completeness.  Once the imports are done every declared
\* type, core or example, exposes every name its ancestors declare; Organism
\* exposes species and age_years with part_of, has_part, participates_in and
\* bearer_of, and every core type the five properties of Entity.
C2_InheritanceCompleteness ==
  ImportsDone =>
    /\ \A T \in TypeNames :
         /\ T \in DOMAIN registry
         /\ \A A \in Ancestors(registry, T) : OwnNames(registry, A) \subseteq Dir(registry, T)
    /\ {"species", "age_years", "part_of", "has_part", "participates_in", "bearer_of"}
         \subseteq Dir(registry, "Organism")
    /\ \A T \in CoreTypes :
         {"uid", "name", "description", "created_at", "modified_at"} \subseteq Dir(registry, T)

\* C3: Continuant and Occurrent are disjoint branches.  No registered type
\* descends from both, and a Continuant-branch type and an Occurrent-branch
\* type have Entity as their only common ancestor.
C3_DisjointBranches ==
  /\ \A T \in DOMAIN registry :
       ~(IsSubclass(registry, T, "Continuant") /\ IsSubclass(registry, T, "Occurrent"))
  /\ LET occurrentSide == {SeqToSet(Mro(registry, U)) :
                             U \in {X \in DOMAIN registry : IsSubclass(registry, X, "Occurrent")}}
     IN \A T \in {X \in DOMAIN registry : IsSubclass(registry, X, "Continuant")} :
          LET above == SeqToSet(Mro(registry, T))
          IN \A s \in occurrentSide : above \cap s = {"Entity"}

\* Both branches are populated, by core and by example types.
C3_Witness ==
  /\ ImportsDone
  /\ IsSubclass(registry, "TeacherRole", "Continuant")
  /\ IsSubclass(registry, "Teaching", "Occurrent")
  /\ IsSubclass(registry, "Function", "Continuant")
  /\ IsSubclass(registry, "History", "Occurrent")

(***************************************************************************)
(* Properties of instantiation.                                            *)
(***************************************************************************)

\* The abstract types the specification lists.
ListedAbstract ==
  {"Continuant", "IndependentContinuant", "ImmaterialEntity", "MaterialEntity",
   "SpecificallyDependentContinuant", "RealizableEntity", "Occurrent", "Process",
   "Quality", "ContinuantFiatBoundary", "SpatialRegion", "TemporalRegion"}

\* The core types no core type names as a base.
CoreLeaves ==
  {T \in CoreTypes : \A S \in CoreTypes : T \notin SeqToSet(ClassObjects[S].bases)}

\* C4: instantiating any of the twelve listed abstract types is rejected
\* with AbstractInstantiationError and creates no node; instantiating a core
\* type that has no subtype in the core is accepted and creates the node.
C4_AbstractRejectedLeavesAccepted ==
  /\ \A i \in DOMAIN nodes : nodes[i] \notin ListedAbstract
  /\ result.op = "instantiate" =>
       /\ result.arg \in ListedAbstract => result.status = "AbstractInstantiationError"
       /\ result.arg \in CoreLeaves =>
            /\ result.status = "ok"
            /\ nodes # <<>> /\ nodes[Len(nodes)] = result.arg

\* A leaf type has been instantiated and Quality has been refused.
C4_Witness ==
  /\ nodes = <<"SpatioTemporalRegion">>
  /\ result = [op |-> "instantiate", arg |-> "Quality",
               status |-> "AbstractInstantiationError"]

\* C5: the abstract flag is not inherited.  Instantiating Quality fails with
\* AbstractInstantiationError, while instantiating a type declared without a
\* flag of its own under an abstract parent succeeds: BodyTemperature under
\* Quality, GenericallyDependentContinuant under Continuant, ProcessBoundary
\* and SpatioTemporalRegion under Occurrent.
C5_AbstractFlagNotInherited ==
  result.op = "instantiate" =>
    /\ result.arg = "Quality" => result.status = "AbstractInstantiationError"
    /\ result.arg \in {"BodyTemperature", "GenericallyDependentContinuant",
                       "ProcessBoundary", "SpatioTemporalRegion"} =>
         result.status = "ok"

(***************************************************************************)
(* Properties of the declarations.                                         *)
(***************************************************************************)

\* Two declarations of one name agree in everything but the class they are in.
SameDeclaration(d, e) ==
  /\ d.kind = e.kind
  /\ d.direction = e.direction
  /\ d.target = e.target
  /\ d.label = e.label
  /\ d.cardinality = e.cardinality

\* The relationship names of the core that C10 lists.
CoreRelationshipNames ==
  {"part_of", "has_part", "located_in", "bearer_of", "participates_in", "inheres_in",
   "realized_by", "has_participant", "realizes", "precedes", "preceded_by"}

\* The class statements of the two example modules.
ExampleStatements ==
  {st \in StatementsOf("examples.biology_example")
           \cup StatementsOf("examples.social_ontology_example") : st.kind = "class"}

\* C10: no registered type declares a name that its parent already exposes
\* with a different definition, and no class statement of the biology or
\* social example declares one of the core relationship names.
C10_NoIncompatibleRedeclaration ==
  /\ \A T \in DOMAIN registry : \A P \in Parents(registry, T) :
       \A d \in ClassObjects[T].members :
         d.name \in Dir(registry, P) => SameDeclaration(d, GetAttr(registry, P, d.name))
  /\ \A st \in ExampleStatements :
       {d.name : d \in st.members} \cap CoreRelationshipNames = {}

\* Every import has run: the social example types are registered under the
\* core types whose relationships they inherit.
C10_Witness ==
  /\ ImportsDone
  /\ "Organization" \in DOMAIN registry
  /\ "part_of" \in Dir(registry, "Organization")
  /\ "part_of_org" \in OwnNames(registry, "Organization")

(***************************************************************************)
(* Properties of linking and traversal.                                    *)
(***************************************************************************)

\* What inheres_in and realizes accept among the node types of SpecPairs.
ConnectExamples ==
  \A a, b \in DOMAIN nodes :
    /\ nodes[a] \in {"RelationalQuality", "Role", "Function"} =>
         ConnectStatus(registry, nodes, edges, a, "inheres_in", b) =
           IF nodes[b] \in {"Object", "Site", "ZeroDimensionalSpatialRegion"}
           THEN "ok" ELSE "RelationshipTypeError"
    /\ nodes[a] = "History" =>
         ConnectStatus(registry, nodes, edges, a, "realizes", b) =
           IF nodes[b] \in {"Role", "Function"} THEN "ok" ELSE "RelationshipTypeError"

\* A connect step: accepted exactly when the target instance's type is the
\* declared target type or one of its descendants, and then the edge is
\* stored; rejected with RelationshipTypeError otherwise, the edges as before.
ConnectValidated ==
  \A a, b \in DOMAIN nodes : \A r \in RelationshipNames(registry, nodes[a]) :
    Connect(a, r, b) =>
      LET d == GetAttr(registry, nodes[a], r)
      IN /\ result'.status = "ok" <=>
              (nodes[b] = d.target \/ d.target \in Ancestors(registry, nodes[b]))
         /\ result'.status \in {"ok", "RelationshipTypeError"}
         /\ result'.status = "ok" => EdgeOf(a, d, b) \in edges'
         /\ result'.status # "ok" => edges' = edges

\* C6: relationship target validation.  Connecting through a relationship
\* declared with target X is accepted if and only if the target instance's
\* type is X or a descendant of X, and is rejected with RelationshipTypeError
\* otherwise; inheres_in accepts an Object or a Site and rejects a quality or
\* a process, realizes accepts a Role or a Function and rejects a quality.
C6_TargetValidation == []ConnectExamples /\ [][ConnectValidated]_vars

\* A quality inheres in an object, and a connect has been refused.
C6_Witness ==
  /\ nodes = <<"RelationalQuality", "Object">>
  /\ <<1, "INHERES_IN", 2>> \in edges
  /\ result = [op |-> "connect", arg |-> "", status |-> "RelationshipTypeError"]

\* The inverse name of each relationship name of the declared inverse pairs.
InverseName ==
  ("part_of" :> "has_part") @@ ("has_part" :> "part_of")
    @@ ("inheres_in" :> "bearer_of") @@ ("bearer_of" :> "inheres_in")
    @@ ("participates_in" :> "has_participant") @@ ("has_participant" :> "participates_in")
    @@ ("realizes" :> "realized_by") @@ ("realized_by" :> "realizes")
    @@ ("precedes" :> "preceded_by") @@ ("preceded_by" :> "precedes")
    @@ ("spatially_contains" :> "spatially_contained_in")
    @@ ("spatially_contained_in" :> "spatially_contains")
    @@ ("temporally_contains" :> "temporally_contained_in")
    @@ ("temporally_contained_in" :> "temporally_contains")

\* An accepted connect of a to b through r makes b a result of traversing r
\* from a and, when r has an inverse name, a a result of traversing it from b.
RoundTrip ==
  \A a, b \in DOMAIN nodes : \A r \in RelationshipNames(registry, nodes[a]) :
    Connect(a, r, b) /\ result'.status = "ok" =>
      /\ b \in Traverse(registry', nodes', edges', a, r)
      /\ r \in DOMAIN InverseName =>
           /\ HasRelationship(registry', nodes'[b], InverseName[r])
           /\ a \in Traverse(registry', nodes', edges', b, InverseName[r])

\* No step takes an instance out of the result of a traversal.
TraversalsKept ==
  \A a \in DOMAIN nodes : \A r \in RelationshipNames(registry, nodes[a]) :
    Traverse(registry, nodes, edges, a, r) \subseteq Traverse(registry', nodes', edges', a, r)

\* C7: round trip through inverse names.  After an accepted connect of A to
\* B through r, traversing r from A returns B and traversing the inverse
\* name from B returns A, for each declared inverse pair, and both stay so
\* after any further connects.
C7_RoundTrip == [][RoundTrip /\ TraversalsKept]_vars

\* Two links between an object and a process, each seen from both ends.
C7_Witness ==
  /\ nodes = <<"Object", "History">>
  /\ Cardinality(edges) = 2
  /\ 2 \in Traverse(registry, nodes, edges, 1, "participates_in")
  /\ 1 \in Traverse(registry, nodes, edges, 2, "has_participant")
  /\ result = [op |-> "connect", arg |-> "", status |-> "ok"]

\* The instances of specifically dependent continuant types.
Dependents ==
  {a \in DOMAIN nodes : IsSubclass(registry, nodes[a], "SpecificallyDependentContinuant")}

\* The instances of independent continuant types.
Bearers ==
  {a \in DOMAIN nodes : IsSubclass(registry, nodes[a], "IndependentContinuant")}

\* C8 as stated: no quality, role, disposition or function instance has
\* more than one inheres_in bearer.
C8_AtMostOneBearer ==
  \A a \in Dependents :
    Cardinality(Traverse(registry, nodes, edges, a, "inheres_in")) <= 1

\* C8 as amended: inheres_in is an outgoing relationship from specifically
\* dependent continuants to independent continuant bearers and is declared
\* zero-or-more.  Every INHERES_IN edge runs from a dependent instance to a
\* bearer, and connecting a dependent instance to a bearer is accepted
\* whatever bearers it already has.
C8_InheresInManyBearers ==
  /\ \A e \in edges : e[2] = "INHERES_IN" => e[1] \in Dependents /\ e[3] \in Bearers
  /\ \A a \in Dependents :
       LET d == GetAttr(registry, nodes[a], "inheres_in")
       IN /\ d.direction = "out"
          /\ d.target = "IndependentContinuant"
          /\ \A b \in Bearers :
               ConnectStatus(registry, nodes, edges, a, "inheres_in", b) = "ok"

\* A function that inheres in two objects.
C8_Witness ==
  /\ nodes = <<"Function", "Object", "Object">>
  /\ Traverse(registry, nodes, edges, 1, "inheres_in") = {2, 3}

\* The instances of process types.
Processes == {a \in DOMAIN nodes : IsSubclass(registry, nodes[a], "Process")}

\* C9 as stated: no process instance precedes itself.
C9_NoSelfPrecedence ==
  \A a \in Processes : a \notin Traverse(registry, nodes, edges, a, "precedes")

\* C9 as amended: precedes and preceded_by relate process instances only,
\* and p.precedes.connect(q) stores the same PRECEDES edge as
\* q.preceded_by.connect(p); the ordering is not strict, since connecting a
\* process instance through precedes is accepted for every process instance,
\* itself included.
C9_PrecedesNotStrict ==
  /\ \A e \in edges : e[2] = "PRECEDES" => e[1] \in Processes /\ e[3] \in Processes
  /\ \A a, b \in Processes :
       /\ ConnectStatus(registry, nodes, edges, a, "precedes", b) = "ok"
       /\ ConnectStatus(registry, nodes, edges, b, "preceded_by", a) = "ok"
       /\ EdgeOf(a, GetAttr(registry, nodes[a], "precedes"), b) =
            EdgeOf(b, GetAttr(registry, nodes[b], "preceded_by"), a)

\* A process that precedes itself and another process.
C9_Witness ==
  /\ nodes = <<"History", "History">>
  /\ Traverse(registry, nodes, edges, 1, "precedes") = {1, 2}
  /\ 1 \in Traverse(registry, nodes, edges, 2, "preceded_by")

(***************************************************************************)
(* Properties of defining types.                                           *)
(***************************************************************************)

\* The cardinalities strictly narrower than a cardinality.
NarrowerThan(card) ==
  CASE card = "ZeroOrMore" -> {"ZeroOrOne", "OneOrMore", "One"}
    [] card = "ZeroOrOne" -> {"One"}
    [] card = "OneOrMore" -> {"One"}
    [] OTHER -> {}

\* Declaration d is the inherited declaration e with a strictly narrower
\* cardinality.
StrictlyNarrows(d, e) ==
  /\ d.kind = "relationship" /\ e.kind = "relationship"
  /\ d.direction = e.direction /\ d.target = e.target /\ d.label = e.label
  /\ d.cardinality \in NarrowerThan(e.cardinality)

\* st declares a name its base already exposes without strictly narrowing it.
Conflicting(reg, st) ==
  \E d \in st.members : \E i \in DOMAIN st.bases :
    /\ st.bases[i] \in DOMAIN reg
    /\ d.name \in Dir(reg, st.bases[i])
    /\ ~StrictlyNarrows(d, GetAttr(reg, st.bases[i], d.name))

\* C11: defining a type that declares again a name inherited from its
\* parent, without strictly narrowing the inherited cardinality, ends in
\* SchemaDefinitionError and leaves the registry without the type.
C11_RedeclarationRejected ==
  /\ \A st \in ExtensionStatements :
       Conflicting(registry, st) => st.name \notin DOMAIN registry
  /\ result.op = "define" =>
       (Conflicting(registry, ClassObjects[result.arg])
          <=> result.status = "SchemaDefinitionError")

(***************************************************************************)
(* Properties of the example modules and of the exports.                   *)
(***************************************************************************)

\* C12: a subtype that adds no fields inherits every relationship
\* unmodified.  Once the imports are done HeartPumpingFunction exists, its
\* inheres_in and realized_by are the declarations of
\* SpecificallyDependentContinuant and RealizableEntity, and its effective
\* schema is that of its parent BiologicalFunction.
C12_InheritsUnmodified ==
  ImportsDone =>
    /\ "HeartPumpingFunction" \in DOMAIN registry
    /\ GetAttr(registry, "HeartPumpingFunction", "inheres_in") =
         GetAttr(registry, "SpecificallyDependentContinuant", "inheres_in")
    /\ GetAttr(registry, "HeartPumpingFunction", "realized_by") =
         GetAttr(registry, "RealizableEntity", "realized_by")
    /\ EffectiveSchema(registry, "HeartPumpingFunction") =
         EffectiveSchema(registry, "BiologicalFunction")

\* The import of module m has not failed, each statement it is about to
\* execute finds the names it uses bound, and once m is loaded the names
\* are bound to registered types.
LoadsDefining(m, names) ==
  /\ modStatus[m] # "failed"
  /\ modStatus[m] = "loading" /\ Top = m /\ NextStmt(m).kind = "class" =>
       Uses(NextStmt(m)) \subseteq ns[m]
  /\ modStatus[m] = "loaded" => names \subseteq (ns[m] \cap DOMAIN registry)

\* C13: loading examples.biology_example runs to completion without error.
\* Every name its statements use is bound by a preceding import or
\* definition, and afterwards Organism, AnatomicalStructure, Cell,
\* BodyTemperature, BiologicalFunction and BiologicalProcess are defined.
C13_BiologyLoads ==
  LoadsDefining("examples.biology_example",
                {"Organism", "AnatomicalStructure", "Cell", "BodyTemperature",
                 "BiologicalFunction", "BiologicalProcess"})

\* C14: loading examples.social_ontology_example runs to completion without
\* error.  Every name its statements use is bound by a preceding import or
\* definition, and afterwards Person, Organization, SocialRole,
\* EmployeeRole, StudentRole and Teaching are defined.
C14_SocialLoads ==
  LoadsDefining("examples.social_ontology_example",
                {"Person", "Organization", "SocialRole", "EmployeeRole",
                 "StudentRole", "Teaching"})

\* The social example has been loaded to its last statement.
C14_Witness ==
  /\ modStatus["examples.social_ontology_example"] = "loaded"
  /\ modPc["examples.social_ontology_example"] = Len(SocialModule)
  /\ {"Person", "Organization", "SocialRole", "EmployeeRole", "StudentRole",
      "Teaching", "example_usage"} \subseteq ns["examples.social_ontology_example"]

\* C15: every name listed in __all__ of neomodel_bfo.bfo is bound, once the
\* module is loaded, to a type that module defines, and the list contains
\* Entity, Continuant, Object, Process, Quality, Role, Function and
\* Disposition.
C15_AllBound ==
  /\ {"Entity", "Continuant", "Object", "Process", "Quality", "Role", "Function",
      "Disposition"} \subseteq BfoAll
  /\ modStatus["neomodel_bfo.bfo"] = "loaded" =>
       \A n \in BfoAll :
         /\ n \in ns["neomodel_bfo.bfo"]
         /\ n \in DOMAIN registry
         /\ n \in DOMAIN ClassObjects /\ ModuleOf(n) = "neomodel_bfo.bfo"

\* bfo.py has executed its last statement, the assignment of __all__.
C15_Witness ==
  /\ modStatus["neomodel_bfo.bfo"] = "loaded"
  /\ "__all__" \in ns["neomodel_bfo.bfo"]
  /\ BfoAll \subseteq ns["neomodel_bfo.bfo"]

\* Type T is registered and declares relationship n itself, with direction
\* dir and target type tgt.
Declares(T, n, dir, tgt) ==
  /\ n \in OwnNames(registry, T)
  /\ LET d == GetAttr(registry, T, n)
     IN d.kind = "relationship" /\ d.direction = dir /\ d.target = tgt

\* C16: the key relationships have the declared directions and targets.
\* On IndependentContinuant bearer_of is incoming from
\* SpecificallyDependentContinuant and participates_in outgoing to Process;
\* on RealizableEntity realized_by is incoming from Process; on Process
\* has_participant is incoming from IndependentContinuant with the edge
\* label of participates_in and the opposite direction, and realizes is
\* outgoing to RealizableEntity; inheres_in is visible on every registered
\* Quality, Role, Disposition and Function type.
C16_KeyRelationships ==
  /\ "IndependentContinuant" \in DOMAIN registry =>
       /\ Declares("IndependentContinuant", "bearer_of", "in",
                   "SpecificallyDependentContinuant")
       /\ Declares("IndependentContinuant", "participates_in", "out", "Process")
  /\ "RealizableEntity" \in DOMAIN registry =>
       Declares("RealizableEntity", "realized_by", "in", "Process")
  /\ "Process" \in DOMAIN registry =>
       /\ Declares("Process", "has_participant", "in", "IndependentContinuant")
       /\ Declares("Process", "realizes", "out", "RealizableEntity")
       /\ LET h == GetAttr(registry, "Process", "has_participant")
              p == GetAttr(registry, "IndependentContinuant", "participates_in")
          IN h.label = p.label /\ h.direction # p.direction
  /\ \A T \in DOMAIN registry :
       (\E K \in {"Quality", "Role", "Disposition", "Function"} : IsSubclass(registry, T, K))
         => /\ HasRelationship(registry, T, "inheres_in")
            /\ GetAttr(registry, T, "inheres_in") =
                 GetAttr(registry, "SpecificallyDependentContinuant", "inheres_in")

\* Every import has run, and core and example types of the four kinds are
\* registered with inheres_in.
C16_Witness ==
  /\ ImportsDone
  /\ {"Process", "RealizableEntity", "RelationalQuality", "Function", "Disposition",
      "Reputation", "TeacherRole"} \subseteq DOMAIN registry
  /\ HasRelationship(registry, "Reputation", "inheres_in")
  /\ HasRelationship(registry, "TeacherRole", "inheres_in")

(***************************************************************************)
(* Properties of the operations' effects.                                  *)
(***************************************************************************)

\* The outcomes that report a rejected operation.
Rejections ==
  {"NameError", "AbstractInstantiationError", "RelationshipTypeError", "CardinalityError"}

\* A step that reports a rejection leaves instances, edges and types as
\* they were; instantiating an abstract type and connecting to an instance
\* outside the declared target type are such steps.
RejectedWithoutEffect ==
  /\ result'.status \in Rejections => UNCHANGED <<nodes, edges, registry>>
  /\ \A T \in OpsTypes :
       Instantiate(T, MaxOpsNodes) /\ T \in ListedAbstract =>
         result'.status = "AbstractInstantiationError" /\ nodes' = nodes
  /\ \A a, b \in DOMAIN nodes : \A r \in RelationshipNames(registry, nodes[a]) :
       Connect(a, r, b)
         /\ ~IsSubclass(registry, nodes[b], GetAttr(registry, nodes[a], r).target) =>
           result'.status = "RelationshipTypeError" /\ edges' = edges

\* C17: every rejected operation is reported at once and has no partial
\* effect.  When an instantiate is rejected for an abstract type, or a
\* connect for a target outside the declared type, the instances and the
\* edges are exactly what they were before the operation.
C17_RejectedNoPartialEffect == [][RejectedWithoutEffect]_vars

\* An object participates in a process, and the instantiation of Quality
\* has just been refused.
C17_Witness ==
  /\ nodes = <<"Object", "History">>
  /\ edges = {<<1, "PARTICIPATES_IN", 2>>}
  /\ result = [op |-> "instantiate", arg |-> "Quality",
               status |-> "AbstractInstantiationError"]

\* Every registered type keeps its parent chain, flag and declarations, and
\* a step that changes instances, edges or the reported outcome registers
\* no type and binds no name; a step of an import, the first or a repeated
\* one, changes no instance and no edge.
SchemaKept ==
  /\ registry' # registry =>
       \A T \in DOMAIN registry :
         /\ T \in DOMAIN registry'
         /\ Mro(registry', T) = Mro(registry, T)
         /\ IsAbstract(registry', T) = IsAbstract(registry, T)
         /\ EffectiveSchema(registry', T) = EffectiveSchema(registry, T)
  /\ <<nodes, edges, result>>' # <<nodes, edges, result>> =>
       UNCHANGED <<registry, ns, modStatus, modPc, stack>>
  /\ <<registry, ns, modStatus, modPc, stack>>' # <<registry, ns, modStatus, modPc, stack>> =>
       UNCHANGED <<nodes, edges>>

\* C18: the schema is immutable once defined.  No create, connect, traverse
\* or delete changes any type's parent, abstract flag, property set or
\* relationship set, and defining the schema creates no instances or edges.
C18_SchemaImmutable == [][SchemaKept]_vars

\* A node has been deleted after nodes were created and linked, with every
\* type of the sources that loads registered.
C18_Witness ==
  /\ result.op = "delete"
  /\ nodes # <<>>
  /\ edges # {}
  /\ {"SpatioTemporalRegion", "Reputation"} \subseteq DOMAIN registry

\* The instances of continuant types.
Continuants == {a \in DOMAIN nodes : IsSubclass(registry, nodes[a], "Continuant")}

\* C19: acyclicity is not enforced.  Whatever edges exist, connecting a
\* process instance to any process instance through precedes, and a
\* continuant instance to any continuant instance through part_of, is
\* accepted, so that two processes each preceding the other, two continuants
\* each part of the other and a continuant part of itself are reachable by
\* accepted connects alone.
C19_AcyclicityNotEnforced ==
  /\ \A a, b \in Processes :
       ConnectStatus(registry, nodes, edges, a, "precedes", b) = "ok"
  /\ \A a, b \in Continuants :
       ConnectStatus(registry, nodes, edges, a, "part_of", b) = "ok"
  /\ \A e \in edges : e[2] \in {"PRECEDES", "PART_OF"}

\* Two processes each precede the other, and an object is part of itself.
C19_Witness ==
  /\ nodes = <<"History", "History", "Object">>
  /\ edges = {<<1, "PRECEDES", 2>>, <<2, "PRECEDES", 1>>, <<3, "PART_OF", 3>>}
  /\ result = [op |-> "connect", arg |-> "", status |-> "ok"]

(***************************************************************************)
(* Depth of the hierarchy.                                                 *)
(***************************************************************************)

\* The level of a registered type, Entity being level 1.
Level(T) == Len(Mro(registry, T))

\* C20: counting Entity as level 1, no core type lies deeper than level 6,
\* and once bfo.py is loaded the longest parent chain has exactly 6 types,
\* Function at the end of Entity, Continuant,
\* SpecificallyDependentContinuant, RealizableEntity, Disposition, Function.
C20_DepthSix ==
  /\ \A T \in RegisteredCore : Level(T) <= 6
  /\ modStatus["neomodel_bfo.bfo"] = "loaded" =>
       /\ \E T \in CoreTypes : Level(T) = 6
       /\ Mro(registry, "Function") =
            <<"Function", "Disposition", "RealizableEntity",
              "SpecificallyDependentContinuant", "Continuant", "Entity">>
       /\ {T \in CoreTypes : Level(T) = 6} =
            {"Function", "ZeroDimensionalContinuantFiatBoundary",
             "OneDimensionalContinuantFiatBoundary", "TwoDimensionalContinuantFiatBoundary",
             "ZeroDimensionalSpatialRegion", "OneDimensionalSpatialRegion",
             "TwoDimensionalSpatialRegion", "ThreeDimensionalSpatialRegion"}

\* bfo.py is loaded and its types of level 6 are registered.
C20_Witness ==
  /\ modStatus["neomodel_bfo.bfo"] = "loaded"
  /\ Level("Function") = 6
  /\ Level("ThreeDimensionalSpatialRegion") = 6
  /\ Level("Entity") = 1

(***************************************************************************)
(* Properties of the declarations of the core.                             *)
(***************************************************************************)

Digits == {"0", "1", "2", "3", "4", "5", "6", "7", "8", "9"}

\* s has the form BFO:NNNNNNN.
IsBfoIdentifier(s) ==
  /\ Len(s) = 11
  /\ SubSeq(s, 1, 4) = "BFO:"
  /\ \A i \in 5..11 : SubSeq(s, i, i) \in Digits

\* C21: every registered core type carries in its documentation a BFO
\* identifier of the form BFO:NNNNNNN, no two core types share an
\* identifier, and Entity, Continuant, Object, Process and Quality carry
\* BFO:0000001, BFO:0000002, BFO:0000030, BFO:0000015 and BFO:0000019.
C21_IdentifiersInjective ==
  /\ \A T \in RegisteredCore : IsBfoIdentifier(Doc(T))
  /\ \A T, U \in RegisteredCore : Doc(T) = Doc(U) => T = U
  /\ modStatus["neomodel_bfo.bfo"] = "loaded" =>
       /\ Cardinality({Doc(T) : T \in RegisteredCore}) = 35
       /\ Doc("Entity") = "BFO:0000001"
       /\ Doc("Continuant") = "BFO:0000002"
       /\ Doc("Object") = "BFO:0000030"
       /\ Doc("Process") = "BFO:0000015"
       /\ Doc("Quality") = "BFO:0000019"

\* bfo.py is loaded, with the last of its types and its identifier.
C21_Witness ==
  /\ modStatus["neomodel_bfo.bfo"] = "loaded"
  /\ "SpatioTemporalRegion" \in RegisteredCore
  /\ Doc("SpatioTemporalRegion") = "BFO:0000011"
  /\ Doc("History") = "BFO:0000182"

\* The relationship declarations of the class statements of bfo.py.
CoreRelationships ==
  UNION {{d \in ClassObjects[T].members : d.kind = "relationship"} : T \in CoreTypes}

\* C22: every relationship declared in the core has cardinality
\* zero-or-more, so no connect is rejected on cardinality grounds: whatever
\* edges an instance already has, connecting it through any of its
\* relationships never ends in CardinalityError.
C22_NoCardinalityRejection ==
  /\ \A d \in CoreRelationships : d.cardinality = "ZeroOrMore"
  /\ result.status # "CardinalityError"
  /\ \A a, b \in DOMAIN nodes : \A r \in RelationshipNames(registry, nodes[a]) :
       ConnectStatus(registry, nodes, edges, a, r, b) # "CardinalityError"

\* An object is part of two other objects.
C22_Witness ==
  /\ nodes = <<"Object", "Object", "Object">>
  /\ Traverse(registry, nodes, edges, 1, "part_of") = {2, 3}
  /\ result = [op |-> "connect", arg |-> "", status |-> "ok"]

\* The instances of occurrent types.
Occurrents == {a \in DOMAIN nodes : IsSubclass(registry, nodes[a], "Occurrent")}

\* C23: parthood never crosses the two branches.  Continuant and Occurrent
\* both store part_of under the label PART_OF, yet every PART_OF edge joins
\* two continuant instances or two occurrent instances, and part_of and
\* has_part traversed from a continuant return continuants only, from an
\* occurrent occurrents only.
C23_ParthoodWithinBranch ==
  /\ \A e \in edges : e[2] = "PART_OF" =>
       \/ e[1] \in Continuants /\ e[3] \in Continuants
       \/ e[1] \in Occurrents /\ e[3] \in Occurrents
  /\ \A a \in Continuants : \A r \in {"part_of", "has_part"} :
       Traverse(registry, nodes, edges, a, r) \subseteq Continuants
  /\ \A a \in Occurrents : \A r \in {"part_of", "has_part"} :
       Traverse(registry, nodes, edges, a, r) \subseteq Occurrents

\* An object and a process are each part of themselves, and a connect
\* between the two has been refused.
C23_Witness ==
  /\ nodes = <<"Object", "History">>
  /\ edges = {<<1, "PART_OF", 1>>, <<2, "PART_OF", 2>>}
  /\ GetAttr(registry, "Occurrent", "part_of").label =
       GetAttr(registry, "Continuant", "part_of").label
  /\ result = [op |-> "connect", arg |-> "", status |-> "RelationshipTypeError"]

\* The types reached from T by following the bases of the class statements.
RECURSIVE DeclaredAncestry(_)
DeclaredAncestry(T) ==
  {T} \cup UNION {DeclaredAncestry(P) : P \in Parents(registry, T)}

\* The registered types under K, K included.
Under(K) == {T \in DOMAIN registry : IsSubclass(registry, T, K)}

\* No type of the set exposes any of the names.
Lacks(types, names) == \A T \in types : Dir(registry, T) \cap names = {}

\* C24: the effective schema of a type is exactly what it and its ancestors
\* declare.  A name is visible on a registered type only if the type or a
\* type on its chain of bases declares it; GenericallyDependentContinuant
\* has no inheres_in, bearer_of or participates_in, Quality and
\* RelationalQuality no realized_by, no Occurrent-branch type located_in,
\* exists_at or bearer_of, ProcessBoundary and the TemporalRegion types no
\* precedes or has_participant, and value and unit are visible on Quality
\* descendants only.
C24_NothingBeyondDeclared ==
  /\ \A T \in DOMAIN registry :
       Dir(registry, T) = UNION {OwnNames(registry, A) : A \in DeclaredAncestry(T)}
  /\ Lacks(DOMAIN registry \cap {"GenericallyDependentContinuant"},
           {"inheres_in", "bearer_of", "participates_in"})
  /\ Lacks(DOMAIN registry \cap {"Quality", "RelationalQuality"}, {"realized_by"})
  /\ Lacks(Under("Occurrent"), {"located_in", "exists_at", "bearer_of"})
  /\ Lacks(Under("ProcessBoundary") \cup Under("TemporalRegion"),
           {"precedes", "has_participant"})
  /\ Lacks(DOMAIN registry \ Under("Quality"), {"value", "unit"})

\* Every import has run: the types the claim names are registered, and
\* value and unit are visible on a Quality descendant.
C24_Witness ==
  /\ ImportsDone
  /\ {"GenericallyDependentContinuant", "RelationalQuality", "ProcessBoundary",
      "OneDimensionalTemporalRegion", "Teaching", "Reputation"} \subseteq DOMAIN registry
  /\ {"value", "unit"} \subseteq Dir(registry, "Reputation")

(***************************************************************************)
(* The abstract types of the core.                                         *)
(***************************************************************************)

\* The registered core types that name T as a base.
CoreSubtypes(T) == {S \in RegisteredCore : T \in SeqToSet(ClassObjects[S].bases)}

\* C25: the abstract core types are exactly the twelve listed types and the
\* root Entity; every other core type is concrete, no instance of an abstract
\* core type exists, and the only concrete core type with a subtype in the
\* core is Disposition, whose one subtype is Function.
C25_AbstractExactlyListed ==
  /\ \A T \in RegisteredCore :
       /\ IsAbstract(registry, T) <=> T \in ListedAbstract \cup {"Entity"}
       /\ ~IsAbstract(registry, T) /\ CoreSubtypes(T) # {} =>
            T = "Disposition" /\ CoreSubtypes(T) = {"Function"}
  /\ \A i \in DOMAIN nodes :
       nodes[i] \in CoreTypes => nodes[i] \notin ListedAbstract \cup {"Entity"}
  /\ result.op = "instantiate" /\ result.arg \in ListedAbstract \cup {"Entity"} =>
       result.status # "ok"

\* The core is loaded with its thirteen abstract types, Disposition has been
\* instantiated and Entity has been refused.
C25_Witness ==
  /\ ImportsDone
  /\ Cardinality({T \in RegisteredCore : IsAbstract(registry, T)}) = 13
  /\ CoreSubtypes("Disposition") = {"Function"}
  /\ nodes = <<"Disposition">>
  /\ result = [op |-> "instantiate", arg |-> "Entity",
               status |-> "AbstractInstantiationError"]

(***************************************************************************)
(* Inverse declarations.                                                   *)
(***************************************************************************)

\* The inverse pairs of the core: the declaring type and name of one side,
\* the declaring type and name of the other.
InversePairs ==
  {<<"Continuant", "part_of", "Continuant", "has_part">>,
   <<"Occurrent", "part_of", "Occurrent", "has_part">>,
   <<"SpecificallyDependentContinuant", "inheres_in", "IndependentContinuant", "bearer_of">>,
   <<"IndependentContinuant", "participates_in", "Process", "has_participant">>,
   <<"Process", "realizes", "RealizableEntity", "realized_by">>,
   <<"Process", "precedes", "Process", "preceded_by">>,
   <<"SpatialRegion", "spatially_contains", "SpatialRegion", "spatially_contained_in">>,
   <<"TemporalRegion", "temporally_contains", "TemporalRegion", "temporally_contained_in">>}

\* The declarations d of D and e of E are each other's inverse: one edge
\* label, opposite directions, each targeting the other's declaring type.
MutuallyInverse(D, d, E, e) ==
  /\ d.kind = "relationship" /\ e.kind = "relationship"
  /\ d.label = e.label
  /\ {d.direction, e.direction} = {"out", "in"}
  /\ d.target = E /\ e.target = D

\* C26: for each inverse pair, once both declaring types are registered,
\* each declares its side in its own class body and the two declarations
\* are mutually inverse; and every declaration of a name of the pairs in the
\* core is one side of such a pair.
C26_InversesConsistent ==
  /\ \A p \in InversePairs :
       {p[1], p[3]} \subseteq DOMAIN registry =>
         /\ p[2] \in OwnNames(registry, p[1])
         /\ p[4] \in OwnNames(registry, p[3])
         /\ MutuallyInverse(p[1], GetAttr(registry, p[1], p[2]),
                            p[3], GetAttr(registry, p[3], p[4]))
  /\ \A D \in RegisteredCore : \A n \in OwnNames(registry, D) \cap DOMAIN InverseName :
       \E p \in InversePairs :
         \/ p[1] = D /\ p[2] = n /\ p[4] = InverseName[n]
         \/ p[3] = D /\ p[4] = n /\ p[2] = InverseName[n]

\* The core is loaded: each declaring type of the pairs is registered, with
\* has_participant stored on the edges of participates_in and has_part of an
\* occurrent on the edges of part_of.
C26_Witness ==
  /\ ImportsDone
  /\ \A p \in InversePairs : {p[1], p[3]} \subseteq DOMAIN registry
  /\ GetAttr(registry, "Process", "has_participant").label = "PARTICIPATES_IN"
  /\ GetAttr(registry, "IndependentContinuant", "participates_in").direction = "out"
  /\ GetAttr(registry, "Occurrent", "has_part").direction = "in"
  /\ GetAttr(registry, "TemporalRegion", "temporally_contained_in").direction = "in"

(***************************************************************************)
(* Relationship targets and export lists.                                  *)
(***************************************************************************)

\* The target type names the relationship declarations of bfo.py use.
CoreTargets == {d.target : d \in CoreRelationships}

\* C27: the relationship declarations of bfo.py use exactly the nine target
\* names TemporalRegion, Continuant, SpatialRegion,
\* SpecificallyDependentContinuant, Process, IndependentContinuant,
\* RealizableEntity, ProcessBoundary and Occurrent, each a type bfo.py
\* defines; the two export lists are equal as sets and equal to the set of
\* the 35 types bfo.py defines, each of which the package imports.  Once
\* bfo.py is loaded every target is a registered class of bfo.py bound in its
\* namespace, and once the package is loaded every one of the 35 names,
\* every target among them, is bound in the package as well.
C27_NoDanglingTargetListsAgree ==
  /\ CoreTargets = {"TemporalRegion", "Continuant", "SpatialRegion",
                    "SpecificallyDependentContinuant", "Process",
                    "IndependentContinuant", "RealizableEntity", "ProcessBoundary",
                    "Occurrent"}
  /\ CoreTargets \subseteq CoreTypes
  /\ PkgAll = BfoAll /\ BfoAll = CoreTypes /\ Cardinality(CoreTypes) = 35
  /\ CoreTypes \subseteq PkgImports.names
  /\ modStatus["neomodel_bfo.bfo"] = "loaded" =>
       \A T \in CoreTargets :
         /\ T \in ns["neomodel_bfo.bfo"]
         /\ T \in DOMAIN registry /\ ModuleOf(T) = "neomodel_bfo.bfo"
  /\ modStatus["neomodel_bfo"] = "loaded" =>
       CoreTypes \cup CoreTargets \subseteq ns["neomodel_bfo"]
  /\ modStatus["neomodel_bfo"] # "failed"

\* The package is loaded: the targets are bound in bfo.py and in the package.
C27_Witness ==
  /\ modStatus["neomodel_bfo"] = "loaded"
  /\ modStatus["neomodel_bfo.bfo"] = "loaded"
  /\ CoreTargets \subseteq ns["neomodel_bfo.bfo"] \cap ns["neomodel_bfo"]
  /\ "ProcessBoundary" \in DOMAIN registry

====
